---- MODULE Spec2Model ----
(***************************************************************************)
(* Verification model of ai.backend.common.distributed.raft (the state     *)
(* machine of raft.py and the grpc client of client.py), of                *)
(* ai.backend.plugin.entrypoint (scan_entrypoints, find_build_root) and of *)
(* ai.backend.manager.models.session (aggregate_kernel_status and          *)
(* SessionRow.main_kernel).                                                *)
(*                                                                         *)
(* raft.py takes its client and server from modules that client.py does    *)
(* not provide under the names it imports (RaftClient, RaftServer); the    *)
(* model follows raft.py: a request_vote result is summed as a vote        *)
(* (raft.py:167) and the heartbeat results are dropped (raft.py:171).      *)
(***************************************************************************)
EXTENDS Integers, Sequences, FiniteSets, TLC

(* ---------------------------------------------------------------------- *)
(* Bounds                                                                  *)
(* ---------------------------------------------------------------------- *)
\* highest term a node may campaign for (caps the unbounded term counter)
MaxTerm == 2
\* number of 1/30 s polls that make up one election timeout
ElectionTicks == 1
\* number of client calls made
NumCalls == 2
\* highest term a caller passes or a peer reports
MaxCallTerm == 1
\* entries extracted from the BUILD files / found in the package metadata
MaxBuild == 2
MaxMeta == 2
\* largest peer count the quorum is computed for
MaxPeers == 60
\* kernels of a session whose statuses are aggregated
MaxKernels == 3
\* kernels of a session whose main kernel is read
MaxSessionKernels == 5
\* depth of the directory find_build_root starts from (the root has depth 0)
MaxDepth == 4

(* ---------------------------------------------------------------------- *)
(* Raft finite state machine (raft.py)                                     *)
(* ---------------------------------------------------------------------- *)
Node == {"n1", "n2", "n3"}
None == "none"

FOLLOWER == "FOLLOWER"
CANDIDATE == "CANDIDATE"
LEADER == "LEADER"
RaftState == {FOLLOWER, CANDIDATE, LEADER}

VARIABLES
    fsm,        \* fsm[i]: fields of RaftFiniteStateMachine i
    pc,         \* pc[i]: position of i's main() coroutine
    pending,    \* pending[i]: peers whose RPC of the current round is unresolved
    results,    \* results[i]: number of true results gathered in the round
    reqTerm,    \* reqTerm[i]: term carried by the RPCs of the current round
    lastCall,   \* the protocol call or term increment made by the latest step
    granted,    \* granted[j]: candidate j granted since its term last changed
    rpc,        \* rpc[c]: the client call c of GrpcRaftClient
    channels,   \* grpc channels opened and closed so far
    scan,       \* one run of scan_entrypoints and its inputs
    qs,         \* one evaluation of membership / quorum
    peersOf,    \* peersOf[i]: the peers node i was constructed with (_peers)
    agg,        \* one call of aggregate_kernel_status and its locals
    sess,       \* one read of SessionRow.main_kernel
    fbr         \* one call of find_build_root and the directories above it

raftVars == <<fsm, pc, pending, results, reqTerm, lastCall, granted>>
clientVars == <<rpc, channels>>
sessionVars == <<agg, sess>>
vars == <<fsm, pc, pending, results, reqTerm, lastCall, granted,
          rpc, channels, scan, qs, peersOf, agg, sess, fbr>>

peers(i) == peersOf[i]

membership(npeers) == npeers + 1

\* variant: half of the members, rounded up
quorum_half_rounded_up(npeers) == (membership(npeers) + 1) \div 2

\* math.floor(membership / 2) + 1
quorum(npeers) == (membership(npeers) \div 2) + 1

\* prev_log_index, prev_log_term, entries, leader_commit of a heartbeat
Heartbeat ==
    [prev_log_index |-> 0, prev_log_term |-> 0, entries |-> <<>>,
     leader_commit |-> 0]

\* the same parameters of a request that carries one entry to commit
Replication ==
    [prev_log_index |-> 0, prev_log_term |-> 0, entries |-> <<"entry">>,
     leader_commit |-> 1]

NoCall == [op |-> "none", node |-> None, peer |-> None, term |-> 0,
           prev_term |-> 0, ret |-> FALSE, log |-> Heartbeat]

Call(op, node, peer, term, prev, ret) ==
    [op |-> op, node |-> node, peer |-> peer, term |-> term,
     prev_term |-> prev, ret |-> ret, log |-> Heartbeat]

execute_transition(self, next_state) == [self EXCEPT !.state = next_state]

reset_timeout(self) == [self EXCEPT !.elapsed_time = 0]

\* variant: a term is adopted whenever it differs from the current one
synchronize_term_adopts_any(self, term) ==
    IF term # self.current_term
    THEN [execute_transition([self EXCEPT !.current_term = term], FOLLOWER)
            EXCEPT !.voted_for = None]
    ELSE self

\* variant: a term equal to the current one synchronizes as well
synchronize_term_adopts_equal(self, term) ==
    IF term >= self.current_term
    THEN [execute_transition([self EXCEPT !.current_term = term], FOLLOWER)
            EXCEPT !.voted_for = None]
    ELSE self

\* variant: the vote of the old term survives the synchronization
synchronize_term_keeps_vote(self, term) ==
    IF term > self.current_term
    THEN execute_transition([self EXCEPT !.current_term = term], FOLLOWER)
    ELSE self

synchronize_term(self, term) ==
    IF term > self.current_term
    THEN [execute_transition([self EXCEPT !.current_term = term], FOLLOWER)
            EXCEPT !.voted_for = None]
    ELSE self

\* variant: an accepted request leaves the election clock running
on_append_entries_keeps_clock(self, term, leader_id) ==
    IF term < self.current_term
    THEN [fsm |-> self, ret |-> FALSE]
    ELSE [fsm |-> [synchronize_term(self, term) EXCEPT !.leader_id = leader_id],
          ret |-> TRUE]

\* variant: the election clock is reset before the stale-term test
on_append_entries_resets_first(self, term, leader_id) ==
    IF term < self.current_term
    THEN [fsm |-> reset_timeout(self), ret |-> FALSE]
    ELSE [fsm |-> reset_timeout([synchronize_term(self, term)
                                    EXCEPT !.leader_id = leader_id]),
          ret |-> TRUE]

on_append_entries(self, term, leader_id) ==
    IF term < self.current_term
    THEN [fsm |-> self, ret |-> FALSE]
    ELSE [fsm |-> reset_timeout([synchronize_term(self, term)
                                    EXCEPT !.leader_id = leader_id]),
          ret |-> TRUE]

\* variant: a stale request is refused before anything is touched
on_request_vote_refuses_first(self, term, candidate_id) ==
    LET s == reset_timeout(synchronize_term(self, term))
    IN  IF term < self.current_term THEN [fsm |-> self, ret |-> FALSE]
        ELSE IF s.voted_for = None
             THEN [fsm |-> [s EXCEPT !.voted_for = candidate_id], ret |-> TRUE]
        ELSE IF s.voted_for = candidate_id THEN [fsm |-> s, ret |-> TRUE]
        ELSE [fsm |-> s, ret |-> FALSE]

\* variant: an accepted request appends its entries and commits them
on_append_entries_stores(self, term, leader_id, log) ==
    LET r == on_append_entries(self, term, leader_id)
    IN  IF r.ret
        THEN [r EXCEPT !.fsm.log = @ \o log.entries,
                       !.fsm.commit_index =
                            IF log.leader_commit > @ THEN log.leader_commit
                                                     ELSE @]
        ELSE r

\* on_append_entries with all its parameters: the body reads term and
\* leader_id only
on_append_entries_call(self, term, leader_id, log) ==
    on_append_entries(self, term, leader_id)

\* variant: the vote goes to whoever asked last
on_request_vote_revotes(self, term, candidate_id) ==
    LET current_term == self.current_term
        s == reset_timeout(synchronize_term(self, term))
    IN  IF term < current_term THEN [fsm |-> s, ret |-> FALSE]
        ELSE [fsm |-> [s EXCEPT !.voted_for = candidate_id], ret |-> TRUE]

on_request_vote(self, term, candidate_id) ==
    LET current_term == self.current_term
        s == reset_timeout(synchronize_term(self, term))
    IN  IF term < current_term THEN [fsm |-> s, ret |-> FALSE]
        ELSE IF s.voted_for = None
             THEN [fsm |-> [s EXCEPT !.voted_for = candidate_id], ret |-> TRUE]
        ELSE IF s.voted_for = candidate_id THEN [fsm |-> s, ret |-> TRUE]
        ELSE [fsm |-> s, ret |-> FALSE]

\* first half of _request_vote, up to the await: the term sent is the one
\* read before the increment
request_vote_begin(self) ==
    LET term == self.current_term
    IN  [fsm |-> execute_transition(synchronize_term(self, term + 1), CANDIDATE),
         term |-> term]

\* variant: the candidate's own vote is not counted
request_vote_end_without_own_vote(self, nresults, npeers) ==
    IF nresults >= quorum(npeers)
    THEN execute_transition(self, LEADER)
    ELSE self

\* variant: a bare majority is not enough
request_vote_end_above_quorum(self, nresults, npeers) ==
    IF nresults + 1 > quorum(npeers)
    THEN execute_transition(self, LEADER)
    ELSE self

\* second half of _request_vote, after gather() returned
request_vote_end(self, nresults, npeers) ==
    IF nresults + 1 >= quorum(npeers)
    THEN execute_transition(self, LEADER)
    ELSE self

is_leader(self, id) == self.leader_id = id

InitFsm ==
    [state |-> FOLLOWER, current_term |-> 0, voted_for |-> None,
     leader_id |-> None, elapsed_time |-> 0,
     log |-> <<>>, commit_index |-> 0, last_applied |-> 0]

InitRaft ==
    /\ fsm = [i \in Node |-> InitFsm]
    /\ pc = [i \in Node |-> "top"]
    /\ pending = [i \in Node |-> {}]
    /\ results = [i \in Node |-> 0]
    /\ reqTerm = [i \in Node |-> 0]
    /\ lastCall = NoCall
    /\ granted = [i \in Node |-> None]

\* every node is constructed with the two other nodes as its peers
Cluster == peersOf = [i \in Node |-> Node \ {i}]

\* every node is constructed with no peers: three clusters of one
Solitary == peersOf = [i \in Node |-> {}]

\* granted[j] follows the node's calls: cleared when j's term changes, set
\* when on_request_vote at j returns true
Granted(newFsm, call) ==
    [j \in Node |->
        IF call.op = "on_request_vote" /\ call.node = j /\ call.ret
        THEN call.peer
        ELSE IF newFsm[j].current_term # fsm[j].current_term THEN None
        ELSE granted[j]]

Step(newFsm, call) ==
    /\ fsm' = newFsm
    /\ lastCall' = call
    /\ granted' = Granted(newFsm, call)
    /\ UNCHANGED <<rpc, channels, scan, qs, peersOf, agg, sess, fbr>>

(* main(): case FOLLOWER, before the wait *)
MainFollower(i) ==
    /\ pc[i] = "top" /\ fsm[i].state = FOLLOWER
    /\ Step([fsm EXCEPT ![i] = reset_timeout(@)], NoCall)
    /\ pc' = [pc EXCEPT ![i] = "wait"]
    /\ UNCHANGED <<pending, results, reqTerm>>

(* _wait_for_election_timeout: one poll *)
WaitTick(i) ==
    /\ pc[i] = "wait" /\ fsm[i].elapsed_time < ElectionTicks
    /\ Step([fsm EXCEPT ![i].elapsed_time = @ + 1], NoCall)
    /\ UNCHANGED <<pc, pending, results, reqTerm>>

(* _wait_for_election_timeout returns; execute_transition(CANDIDATE) *)
WaitDone(i) ==
    /\ pc[i] = "wait" /\ fsm[i].elapsed_time >= ElectionTicks
    /\ Step([fsm EXCEPT ![i] = execute_transition(@, CANDIDATE)], NoCall)
    /\ pc' = [pc EXCEPT ![i] = "top"]
    /\ UNCHANGED <<pending, results, reqTerm>>

BeginRound(i, self) ==
    LET b == request_vote_begin(self)
    IN  /\ self.current_term < MaxTerm
        /\ Step([fsm EXCEPT ![i] = b.fsm],
                Call("request_vote", i, None, self.current_term + 1,
                     self.current_term, FALSE))
        /\ pc' = [pc EXCEPT ![i] = "gather"]
        /\ pending' = [pending EXCEPT ![i] = peers(i)]
        /\ results' = [results EXCEPT ![i] = 0]
        /\ reqTerm' = [reqTerm EXCEPT ![i] = b.term]

(* main(): case CANDIDATE, first round *)
MainCandidate(i) ==
    /\ pc[i] = "top" /\ fsm[i].state = CANDIDATE
    /\ BeginRound(i, [fsm[i] EXCEPT !.leader_id = None])

(* a peer's server dispatches the RequestVote to on_request_vote *)
DeliverRequestVote(i, j, lost) ==
    /\ pc[i] = "gather" /\ j \in pending[i]
    /\ LET r == on_request_vote(fsm[j], reqTerm[i], i)
       IN  /\ Step([fsm EXCEPT ![j] = r.fsm],
                   Call("on_request_vote", j, i, reqTerm[i],
                        fsm[j].current_term, r.ret))
           /\ results' = [results EXCEPT
                            ![i] = IF r.ret /\ ~lost THEN @ + 1 ELSE @]
    /\ pending' = [pending EXCEPT ![i] = @ \ {j}]
    /\ UNCHANGED <<pc, reqTerm>>

(* the RequestVote never reaches the peer: the client call yields false *)
FailRequestVote(i, j) ==
    /\ pc[i] = "gather" /\ j \in pending[i]
    /\ Step(fsm, NoCall)
    /\ pending' = [pending EXCEPT ![i] = @ \ {j}]
    /\ UNCHANGED <<pc, results, reqTerm>>

(* gather() returned: count the votes *)
RequestVoteDone(i) ==
    /\ pc[i] = "gather" /\ pending[i] = {}
    /\ LET s == request_vote_end(fsm[i], results[i], Cardinality(peers(i)))
       IN  /\ Step([fsm EXCEPT ![i] = s], NoCall)
           /\ pc' = [pc EXCEPT ![i] = IF s.state = LEADER THEN "top"
                                                          ELSE "retry_sleep"]
    /\ results' = [results EXCEPT ![i] = 0]
    /\ reqTerm' = [reqTerm EXCEPT ![i] = 0]
    /\ UNCHANGED pending

(* sleep(election_timeout) is over and the node is still CANDIDATE *)
CandidateRetry(i) ==
    /\ pc[i] = "retry_sleep" /\ fsm[i].state = CANDIDATE
    /\ BeginRound(i, fsm[i])

(* sleep(election_timeout) is over and the node was demoted meanwhile *)
CandidateExit(i) ==
    /\ pc[i] = "retry_sleep" /\ fsm[i].state # CANDIDATE
    /\ Step(fsm, NoCall)
    /\ pc' = [pc EXCEPT ![i] = "top"]
    /\ UNCHANGED <<pending, results, reqTerm>>

PublishHeartbeat(i, self) ==
    /\ peers(i) # {}
    /\ Step([fsm EXCEPT ![i] = self], NoCall)
    /\ pc' = [pc EXCEPT ![i] = "heartbeat"]
    /\ pending' = [pending EXCEPT ![i] = peers(i)]
    /\ reqTerm' = [reqTerm EXCEPT ![i] = self.current_term]
    /\ UNCHANGED results

(* main(): case LEADER, first heartbeat *)
MainLeader(i) ==
    /\ pc[i] = "top" /\ fsm[i].state = LEADER
    /\ PublishHeartbeat(i, [fsm[i] EXCEPT !.leader_id = i])

(* main(): case LEADER of a node without peers: asyncio.wait of an empty *)
(* set raises ValueError out of main()                                    *)
MainLeaderRaises(i) ==
    /\ pc[i] = "top" /\ fsm[i].state = LEADER
    /\ peers(i) = {}
    /\ Step([fsm EXCEPT ![i].leader_id = i], NoCall)
    /\ pc' = [pc EXCEPT ![i] = "raised"]
    /\ UNCHANGED <<pending, results, reqTerm>>

(* a peer's server dispatches the AppendEntries to on_append_entries *)
DeliverAppendEntries(i, j) ==
    /\ pc[i] = "heartbeat" /\ j \in pending[i]
    /\ LET r == on_append_entries(fsm[j], reqTerm[i], i)
       IN  Step([fsm EXCEPT ![j] = r.fsm],
                Call("on_append_entries", j, i, reqTerm[i],
                     fsm[j].current_term, r.ret))
    /\ pending' = [pending EXCEPT ![i] = @ \ {j}]
    /\ UNCHANGED <<pc, results, reqTerm>>

(* the AppendEntries never reaches the peer *)
FailAppendEntries(i, j) ==
    /\ pc[i] = "heartbeat" /\ j \in pending[i]
    /\ Step(fsm, NoCall)
    /\ pending' = [pending EXCEPT ![i] = @ \ {j}]
    /\ UNCHANGED <<pc, results, reqTerm>>

(* asyncio.wait(ALL_COMPLETED) returned *)
HeartbeatDone(i) ==
    /\ pc[i] = "heartbeat" /\ pending[i] = {}
    /\ Step(fsm, NoCall)
    /\ pc' = [pc EXCEPT ![i] = "hb_sleep"]
    /\ reqTerm' = [reqTerm EXCEPT ![i] = 0]
    /\ UNCHANGED <<pending, results>>

(* sleep(heartbeat_interval) is over and the node is still LEADER *)
LeaderRepeat(i) ==
    /\ pc[i] = "hb_sleep" /\ fsm[i].state = LEADER
    /\ PublishHeartbeat(i, fsm[i])

(* sleep(heartbeat_interval) is over and the node was demoted meanwhile *)
LeaderExit(i) ==
    /\ pc[i] = "hb_sleep" /\ fsm[i].state # LEADER
    /\ Step(fsm, NoCall)
    /\ pc' = [pc EXCEPT ![i] = "top"]
    /\ UNCHANGED <<pending, results, reqTerm>>

Next ==
    \/ \E i \in Node : MainFollower(i)
    \/ \E i \in Node : WaitTick(i)
    \/ \E i \in Node : WaitDone(i)
    \/ \E i \in Node : MainCandidate(i)
    \/ \E i \in Node : \E j \in Node : \E lost \in BOOLEAN :
            DeliverRequestVote(i, j, lost)
    \/ \E i \in Node : \E j \in Node : FailRequestVote(i, j)
    \/ \E i \in Node : RequestVoteDone(i)
    \/ \E i \in Node : CandidateRetry(i)
    \/ \E i \in Node : CandidateExit(i)
    \/ \E i \in Node : MainLeader(i)
    \/ \E i \in Node : \E j \in Node : DeliverAppendEntries(i, j)
    \/ \E i \in Node : \E j \in Node : FailAppendEntries(i, j)
    \/ \E i \in Node : HeartbeatDone(i)
    \/ \E i \in Node : LeaderRepeat(i)
    \/ \E i \in Node : LeaderExit(i)

(* ---------------------------------------------------------------------- *)
(* One state machine against an arbitrary network: its server may deliver  *)
(* any RequestVote / AppendEntries, its client may resolve any way         *)
(* ---------------------------------------------------------------------- *)
Self == "n1"

(* the server dispatches an inbound RequestVote *)
EnvRequestVote(j, term, candidate_id) ==
    /\ LET r == on_request_vote(fsm[j], term, candidate_id)
       IN  Step([fsm EXCEPT ![j] = r.fsm],
                Call("on_request_vote", j, candidate_id, term,
                     fsm[j].current_term, r.ret))
    /\ UNCHANGED <<pc, pending, results, reqTerm>>

(* the server dispatches an inbound AppendEntries *)
EnvAppendEntries(j, term, leader_id) ==
    /\ \E log \in {Heartbeat, Replication} :
            LET r == on_append_entries_call(fsm[j], term, leader_id, log)
            IN  Step([fsm EXCEPT ![j] = r.fsm],
                     [Call("on_append_entries", j, leader_id, term,
                           fsm[j].current_term, r.ret) EXCEPT !.log = log])
    /\ UNCHANGED <<pc, pending, results, reqTerm>>

(* the client call to peer j resolves with vote_granted = true *)
PeerGrantsVote(i, j) ==
    /\ pc[i] = "gather" /\ j \in pending[i]
    /\ Step(fsm, NoCall)
    /\ results' = [results EXCEPT ![i] = @ + 1]
    /\ pending' = [pending EXCEPT ![i] = @ \ {j}]
    /\ UNCHANGED <<pc, reqTerm>>

NextNode ==
    \/ MainFollower(Self)
    \/ WaitTick(Self)
    \/ WaitDone(Self)
    \/ MainCandidate(Self)
    \/ \E j \in Node : PeerGrantsVote(Self, j)
    \/ \E j \in Node : FailRequestVote(Self, j)
    \/ RequestVoteDone(Self)
    \/ CandidateRetry(Self)
    \/ CandidateExit(Self)
    \/ MainLeader(Self)
    \/ \E j \in Node : FailAppendEntries(Self, j)
    \/ HeartbeatDone(Self)
    \/ LeaderRepeat(Self)
    \/ LeaderExit(Self)
    \/ \E t \in 0..MaxTerm : \E c \in peers(Self) : EnvRequestVote(Self, t, c)
    \/ \E t \in 0..MaxTerm : \E l \in peers(Self) : EnvAppendEntries(Self, t, l)

(* ---------------------------------------------------------------------- *)
(* Nodes constructed without peers, with no inbound RPC: the main loop    *)
(* alone. A round gathers no call, so it never sleeps for a retry.         *)
(* ---------------------------------------------------------------------- *)
MainLoop(i) ==
    \/ MainFollower(i)
    \/ WaitTick(i)
    \/ WaitDone(i)
    \/ MainCandidate(i)
    \/ RequestVoteDone(i)
    \/ MainLeaderRaises(i)

NextSolitary == \E i \in Node : MainLoop(i)

(* ---------------------------------------------------------------------- *)
(* GrpcRaftClient (client.py)                                              *)
(* ---------------------------------------------------------------------- *)
CallId == 1..NumCalls
Method == {"append_entries", "request_vote"}
CancelledError == "CancelledError"
TimeoutError == "TimeoutError"

\* what ends the await of the stub call
Reply(term, ok) == [kind |-> "reply", term |-> term, ok |-> ok]
AioRpcError == [kind |-> "rpc_error", term |-> 0, ok |-> FALSE]
TimedOut == [kind |-> "timeout", term |-> 0, ok |-> FALSE]
Cancelled == [kind |-> "cancel", term |-> 0, ok |-> FALSE]
NoEvent == [kind |-> "none", term |-> 0, ok |-> FALSE]

\* variant: the channel is closed after the await instead of in a finally
inner_call_closes_on_return(term, ev) ==
    CASE ev.kind = "reply" ->
            [exc |-> None, value |-> <<ev.term, ev.ok>>, closed |-> TRUE]
      [] ev.kind = "rpc_error" ->
            [exc |-> None, value |-> <<term, FALSE>>, closed |-> TRUE]
      [] OTHER ->
            [exc |-> CancelledError, value |-> <<term, FALSE>>, closed |-> FALSE]

\* _append_entries / _request_vote from the await on: the try / except
\* AioRpcError / finally channel.close()
inner_call(term, ev) ==
    CASE ev.kind = "reply" ->
            [exc |-> None, value |-> <<ev.term, ev.ok>>, closed |-> TRUE]
      [] ev.kind = "rpc_error" ->
            [exc |-> None, value |-> <<term, FALSE>>, closed |-> TRUE]
      [] OTHER ->
            [exc |-> CancelledError, value |-> <<term, FALSE>>, closed |-> TRUE]

\* asyncio.wait_for around the inner call: a timeout cancels the inner call
\* and raises TimeoutError, a cancellation is passed on
wait_for(inner, ev) ==
    IF inner.exc = None THEN inner
    ELSE [inner EXCEPT !.exc = IF ev.kind = "timeout" THEN TimeoutError
                                                      ELSE CancelledError]

append_entries(term, w) ==
    IF w.exc \in {CancelledError, TimeoutError}
    THEN [pc |-> "returned", value |-> <<term, FALSE>>]
    ELSE [pc |-> "returned", value |-> w.value]

\* variant: the timeout is not caught
request_vote_lets_timeout_through(term, w) ==
    IF w.exc # None
    THEN [pc |-> "raised", value |-> <<term, FALSE>>]
    ELSE [pc |-> "returned", value |-> w.value]

request_vote(term, w) ==
    IF w.exc = TimeoutError
    THEN [pc |-> "returned", value |-> <<term, FALSE>>]
    ELSE IF w.exc # None
    THEN [pc |-> "raised", value |-> <<term, FALSE>>]
    ELSE [pc |-> "returned", value |-> w.value]

outer_call(method, term, w) ==
    IF method = "append_entries" THEN append_entries(term, w)
                                 ELSE request_vote(term, w)

IdleCall ==
    [pc |-> "idle", method |-> "append_entries", term |-> 0,
     channel |-> "none", event |-> NoEvent, value |-> <<0, FALSE>>]

ClientIdle ==
    /\ rpc = [c \in CallId |-> IdleCall]
    /\ channels = [opened |-> 0, closed |-> 0]

ClientStep == UNCHANGED <<fsm, pc, pending, results, reqTerm, lastCall,
                          granted, scan, qs, peersOf, agg, sess, fbr>>

(* append_entries / request_vote is called: wait_for schedules the inner call *)
StartCall(c, method, term) ==
    /\ rpc[c].pc = "idle"
    /\ rpc' = [rpc EXCEPT ![c] = [@ EXCEPT !.pc = "scheduled",
                                           !.method = method, !.term = term]]
    /\ UNCHANGED channels
    /\ ClientStep

(* the inner call starts: it opens the channel and awaits the stub *)
OpenChannel(c) ==
    /\ rpc[c].pc = "scheduled"
    /\ rpc' = [rpc EXCEPT ![c] = [@ EXCEPT !.pc = "awaiting",
                                           !.channel = "open"]]
    /\ channels' = [channels EXCEPT !.opened = @ + 1]
    /\ ClientStep

\* the await of the stub ends with ev and the call resolves
Resolve(c, ev) ==
    /\ LET inner == inner_call(rpc[c].term, ev)
           out == outer_call(rpc[c].method, rpc[c].term, wait_for(inner, ev))
       IN  /\ rpc' = [rpc EXCEPT ![c] =
                        [@ EXCEPT !.pc = out.pc, !.value = out.value,
                                  !.event = ev,
                                  !.channel = IF inner.closed THEN "closed"
                                                              ELSE @]]
           /\ channels' = [channels EXCEPT
                            !.closed = IF inner.closed THEN @ + 1 ELSE @]
    /\ ClientStep

(* the peer answers *)
PeerReplies(c, term, ok) ==
    /\ rpc[c].pc = "awaiting"
    /\ Resolve(c, Reply(term, ok))

(* the stub raises grpc.aio.AioRpcError *)
TransportFails(c) ==
    /\ rpc[c].pc = "awaiting"
    /\ Resolve(c, AioRpcError)

(* the timeout of wait_for expires first *)
Timeout(c) ==
    /\ rpc[c].pc = "awaiting"
    /\ Resolve(c, TimedOut)

(* the caller's task is cancelled during the await *)
CancelAwaiting(c) ==
    /\ rpc[c].pc = "awaiting"
    /\ Resolve(c, Cancelled)

(* the call is cancelled before its inner call ever ran: no channel exists *)
CancelScheduled(c) ==
    /\ rpc[c].pc = "scheduled"
    /\ LET w == [exc |-> CancelledError, value |-> <<rpc[c].term, FALSE>>,
                 closed |-> FALSE]
           out == outer_call(rpc[c].method, rpc[c].term, w)
       IN  rpc' = [rpc EXCEPT ![c] = [@ EXCEPT !.pc = out.pc,
                                               !.value = out.value,
                                               !.event = Cancelled]]
    /\ UNCHANGED channels
    /\ ClientStep

NextClient ==
    \/ \E c \in CallId : \E m \in Method : \E t \in 0..MaxCallTerm :
            StartCall(c, m, t)
    \/ \E c \in CallId : OpenChannel(c)
    \/ \E c \in CallId : \E t \in 0..MaxCallTerm : \E ok \in BOOLEAN :
            PeerReplies(c, t, ok)
    \/ \E c \in CallId : TransportFails(c)
    \/ \E c \in CallId : Timeout(c)
    \/ \E c \in CallId : CancelAwaiting(c)
    \/ \E c \in CallId : CancelScheduled(c)

(* ---------------------------------------------------------------------- *)
(* Plugin entry points (entrypoint.py)                                     *)
(* ---------------------------------------------------------------------- *)
Names == {"a", "b"}
Refs == {"x", "y"}
EntryPoint == [name : Names, value : Refs]

SeqsUpTo(S, n) == UNION {[1..k -> S] : k \in 0..n}

\* entrypoints[entrypoint.name] = entrypoint on an insertion-ordered dict
DictPut(d, e) ==
    IF \E k \in 1..Len(d) : d[k].name = e.name
    THEN [k \in 1..Len(d) |-> IF d[k].name = e.name THEN e ELSE d[k]]
    ELSE Append(d, e)

RECURSIVE DictOf(_)
DictOf(es) ==
    IF es = <<>> THEN <<>>
    ELSE DictPut(DictOf(SubSeq(es, 1, Len(es) - 1)), es[Len(es)])

\* the generator either raises at its first step or yields items
scan_entrypoint_from_buildscript(root, extracted) ==
    IF ~root
    THEN [raises |-> "UnboundLocalError", items |-> <<>>]
    ELSE [raises |-> None, items |-> DictOf(extracted)]

scan_entrypoint_from_package_metadata(metadata) == metadata

\* itertools.chain of the two sources, as far as it can be consumed
Merged(sc) ==
    LET b == scan_entrypoint_from_buildscript(sc.root, sc.extracted)
    IN  IF b.raises # None THEN <<>>
        ELSE b.items \o scan_entrypoint_from_package_metadata(sc.metadata)

NoError == [kind |-> None, name |-> None, existing |-> None, value |-> None]

\* a variant that looks the name up, and records it, before the blocklist test
scan_entrypoints_iter_records_blocked(sc, e) ==
    IF sc.existing_names[e.name] # None
    THEN [sc EXCEPT !.pc = "failed",
                    !.error = [kind |-> "RuntimeError", name |-> e.name,
                               existing |-> sc.existing_names[e.name],
                               value |-> e.value]]
    ELSE IF e.name \in sc.blocklist
    THEN [sc EXCEPT !.existing_names[e.name] = e.value, !.pos = @ + 1]
    ELSE [sc EXCEPT !.existing_names[e.name] = e.value,
                    !.yielded = Append(@, e),
                    !.pos = @ + 1]

\* one iteration of the for loop of scan_entrypoints on entry e
scan_entrypoints_iter(sc, e) ==
    IF e.name \in sc.blocklist
    THEN [sc EXCEPT !.pos = @ + 1]
    ELSE IF sc.existing_names[e.name] # None
    THEN [sc EXCEPT !.pc = "failed",
                    !.error = [kind |-> "RuntimeError", name |-> e.name,
                               existing |-> sc.existing_names[e.name],
                               value |-> e.value]]
    ELSE [sc EXCEPT !.existing_names[e.name] = e.value,
                    !.yielded = Append(@, e),
                    !.pos = @ + 1]

ScanStart(extracted, metadata, blocklist, root) ==
    [extracted |-> extracted, metadata |-> metadata, blocklist |-> blocklist,
     root |-> root, pc |-> "scanning", pos |-> 1,
     existing_names |-> [n \in Names |-> None],
     yielded |-> <<>>, error |-> NoError]

ScanIdle == scan = ScanStart(<<>>, <<>>, {}, TRUE)

ScanInit ==
    \E ex \in SeqsUpTo(EntryPoint, MaxBuild) :
    \E md \in SeqsUpTo(EntryPoint, MaxMeta) :
    \E bl \in SUBSET Names : \E root \in BOOLEAN :
        scan = ScanStart(ex, md, bl, root)

ScanFrame == UNCHANGED <<fsm, pc, pending, results, reqTerm, lastCall,
                         granted, rpc, channels, qs, peersOf, agg, sess,
                         fbr>>

(* the build-script source raises when it is first advanced *)
ScanBuildscriptRaises ==
    /\ scan.pc = "scanning"
    /\ scan_entrypoint_from_buildscript(scan.root, scan.extracted).raises # None
    /\ scan' = [scan EXCEPT !.pc = "failed",
                            !.error = [NoError EXCEPT !.kind =
                                scan_entrypoint_from_buildscript(
                                    scan.root, scan.extracted).raises]]
    /\ ScanFrame

(* the loop takes the next entry of the chain *)
ScanEntry ==
    /\ scan.pc = "scanning"
    /\ scan_entrypoint_from_buildscript(scan.root, scan.extracted).raises = None
    /\ scan.pos <= Len(Merged(scan))
    /\ scan' = scan_entrypoints_iter(scan, Merged(scan)[scan.pos])
    /\ ScanFrame

(* the chain is exhausted *)
ScanExhausted ==
    /\ scan.pc = "scanning"
    /\ scan_entrypoint_from_buildscript(scan.root, scan.extracted).raises = None
    /\ scan.pos > Len(Merged(scan))
    /\ scan' = [scan EXCEPT !.pc = "exhausted"]
    /\ ScanFrame

NextScan ==
    \/ ScanBuildscriptRaises
    \/ ScanEntry
    \/ ScanExhausted

(* ---------------------------------------------------------------------- *)
(* find_build_root (entrypoint.py): a directory is the depth of the        *)
(* start directory's ancestor, the filesystem root being 0                 *)
(* ---------------------------------------------------------------------- *)
\* Path.parent: the root is its own parent
parent(d) == IF d = 0 THEN 0 ELSE d - 1

\* one iteration of the while loop; after the break the function raises
find_build_root_iter(f) ==
    IF f.cwd \in f.markers
    THEN [f EXCEPT !.pc = "returned", !.ret = f.cwd]
    ELSE IF parent(parent(f.cwd)) = parent(f.cwd)
    THEN [f EXCEPT !.cwd = parent(f.cwd), !.pc = "raised"]
    ELSE [f EXCEPT !.cwd = parent(f.cwd)]

\* markers: the depths of the ancestors (start included) holding BUILD_ROOT
FindStart(path, markers) ==
    [path |-> path, markers |-> markers, cwd |-> path, pc |-> "loop",
     ret |-> -1]

FindIdle == fbr = FindStart(0, {})

FindInit ==
    \E path \in 0..MaxDepth : \E markers \in SUBSET (0..path) :
        fbr = FindStart(path, markers)

FindFrame == UNCHANGED <<fsm, pc, pending, results, reqTerm, lastCall,
                         granted, rpc, channels, scan, qs, peersOf, agg, sess>>

(* the loop finds the marker in cwd and returns it *)
FindReturn ==
    /\ fbr.pc = "loop" /\ fbr.cwd \in fbr.markers
    /\ fbr' = find_build_root_iter(fbr)
    /\ FindFrame

(* the loop moves to the parent directory, and breaks when that is the root *)
FindAscend ==
    /\ fbr.pc = "loop" /\ fbr.cwd \notin fbr.markers
    /\ fbr' = find_build_root_iter(fbr)
    /\ FindFrame

NextFind ==
    \/ FindReturn
    \/ FindAscend

(* ---------------------------------------------------------------------- *)
(* membership / quorum (raft.py)                                           *)
(* ---------------------------------------------------------------------- *)
QuorumStart(p) == [peers |-> p, pc |-> "start", membership |-> 0, quorum |-> 0]

QuorumIdle == qs = QuorumStart(0)

QuorumInit == \E p \in 0..MaxPeers : qs = QuorumStart(p)

(* the two properties are read *)
ReadQuorum ==
    /\ qs.pc = "start"
    /\ qs' = [qs EXCEPT !.pc = "done",
                        !.membership = membership(qs.peers),
                        !.quorum = quorum(qs.peers)]
    /\ UNCHANGED <<fsm, pc, pending, results, reqTerm, lastCall, granted,
                   rpc, channels, scan, peersOf, agg, sess, fbr>>

NextQuorum == ReadQuorum

(* ---------------------------------------------------------------------- *)
(* Session status aggregation and main kernel (session.py)                 *)
(* ---------------------------------------------------------------------- *)
StatusName ==
    {"PENDING", "SCHEDULED", "PREPARING", "BUILDING", "PULLING", "RUNNING",
     "RESTARTING", "RESIZING", "SUSPENDED", "TERMINATING", "TERMINATED",
     "ERROR", "CANCELLED"}

\* members of the two enumerations are distinct objects
KernelStatus(n) == [enum |-> "KernelStatus", name |-> n]
SessionStatus(n) == [enum |-> "SessionStatus", name |-> n]
NoStatus == [enum |-> None, name |-> None]

KernelStatuses == {KernelStatus(n) : n \in StatusName}

\* KernelStatus.<member>.value
KernelStatusValue(k) ==
    CASE k.name = "PENDING" -> 0
      [] k.name = "SCHEDULED" -> 5
      [] k.name = "PREPARING" -> 10
      [] k.name = "BUILDING" -> 20
      [] k.name = "PULLING" -> 21
      [] k.name = "RUNNING" -> 30
      [] k.name = "RESTARTING" -> 31
      [] k.name = "RESIZING" -> 32
      [] k.name = "SUSPENDED" -> 33
      [] k.name = "TERMINATING" -> 40
      [] k.name = "TERMINATED" -> 41
      [] k.name = "ERROR" -> 42
      [] k.name = "CANCELLED" -> 43

KERNEL_SESSION_STATUS_MAPPING(k) ==
    CASE k = KernelStatus("PENDING") -> SessionStatus("PENDING")
      [] k = KernelStatus("SCHEDULED") -> SessionStatus("SCHEDULED")
      [] k = KernelStatus("PREPARING") -> SessionStatus("PREPARING")
      [] k = KernelStatus("BUILDING") -> SessionStatus("BUILDING")
      [] k = KernelStatus("PULLING") -> SessionStatus("PULLING")
      [] k = KernelStatus("RUNNING") -> SessionStatus("RUNNING")
      [] k = KernelStatus("RESTARTING") -> SessionStatus("RESTARTING")
      [] k = KernelStatus("RESIZING") -> SessionStatus("RESIZING")
      [] k = KernelStatus("SUSPENDED") -> SessionStatus("SUSPENDED")
      [] k = KernelStatus("TERMINATING") -> SessionStatus("TERMINATING")
      [] k = KernelStatus("TERMINATED") -> SessionStatus("TERMINATED")
      [] k = KernelStatus("ERROR") -> SessionStatus("ERROR")
      [] k = KernelStatus("CANCELLED") -> SessionStatus("CANCELLED")

\* min(candidates, key=lambda s: s.value)
MinByValue(candidates) ==
    CHOOSE s \in candidates :
        \A t \in candidates : KernelStatusValue(s) <= KernelStatusValue(t)

\* variant: every finished status replaces the one found before it
aggregate_iter_last_wins(a, s) ==
    IF s.name \in {"ERROR", "TERMINATING", "CANCELLED", "TERMINATED"}
    THEN [a EXCEPT !.priority_finished_status = SessionStatus(s.name)]
    ELSE [a EXCEPT !.candidates = @ \cup {s}, !.is_finished = FALSE]

\* variant: a TERMINATED kernel replaces CANCELLED
aggregate_iter_terminated_over_cancelled(a, s) ==
    CASE s = KernelStatus("ERROR") ->
            [a EXCEPT !.priority_finished_status = SessionStatus("ERROR")]
      [] s = KernelStatus("TERMINATING") ->
            IF a.priority_finished_status # SessionStatus("ERROR")
            THEN [a EXCEPT !.priority_finished_status =
                                SessionStatus("TERMINATING")]
            ELSE a
      [] s = KernelStatus("CANCELLED") ->
            IF a.priority_finished_status \notin
                    {SessionStatus("ERROR"), SessionStatus("TERMINATING")}
            THEN [a EXCEPT !.priority_finished_status =
                                SessionStatus("CANCELLED")]
            ELSE a
      [] s = KernelStatus("TERMINATED") ->
            IF a.priority_finished_status \notin
                    {SessionStatus("ERROR"), SessionStatus("TERMINATING")}
            THEN [a EXCEPT !.priority_finished_status =
                                SessionStatus("TERMINATED")]
            ELSE a
      [] OTHER ->
            [a EXCEPT !.candidates = @ \cup {s}, !.is_finished = FALSE]

\* the body of the for loop of aggregate_kernel_status on status s
aggregate_iter(a, s) ==
    CASE s = KernelStatus("ERROR") ->
            [a EXCEPT !.priority_finished_status = SessionStatus("ERROR")]
      [] s = KernelStatus("TERMINATING") ->
            IF a.priority_finished_status # SessionStatus("ERROR")
            THEN [a EXCEPT !.priority_finished_status =
                                SessionStatus("TERMINATING")]
            ELSE a
      [] s = KernelStatus("CANCELLED") ->
            IF a.priority_finished_status \notin
                    {SessionStatus("ERROR"), SessionStatus("TERMINATING")}
            THEN [a EXCEPT !.priority_finished_status =
                                SessionStatus("CANCELLED")]
            ELSE a
      [] s = KernelStatus("TERMINATED") ->
            IF a.priority_finished_status \notin
                    {SessionStatus("ERROR"), SessionStatus("CANCELLED"),
                     SessionStatus("TERMINATING")}
            THEN [a EXCEPT !.priority_finished_status =
                                SessionStatus("TERMINATED")]
            ELSE a
      [] OTHER ->
            [a EXCEPT !.candidates = @ \cup {s}, !.is_finished = FALSE]

\* variant: an ERROR kernel decides the result whatever else is running
aggregate_return_error_first(a) ==
    IF a.is_finished \/ a.priority_finished_status = SessionStatus("ERROR")
    THEN a.priority_finished_status
    ELSE KERNEL_SESSION_STATUS_MAPPING(MinByValue(a.candidates))

\* the two return statements of aggregate_kernel_status
aggregate_return(a) ==
    IF a.is_finished
    THEN a.priority_finished_status
    ELSE KERNEL_SESSION_STATUS_MAPPING(MinByValue(a.candidates))

AggStart(kernel_statuses) ==
    [kernel_statuses |-> kernel_statuses, pc |-> "loop", pos |-> 1,
     candidates |-> {},
     priority_finished_status |-> SessionStatus("TERMINATED"),
     is_finished |-> TRUE, ret |-> NoStatus]

AggIdle == agg = AggStart(<<>>)

\* the for loop of aggregate_kernel_status over the statuses left
RECURSIVE aggregate_loop(_, _)
aggregate_loop(a, rest) ==
    IF rest = <<>>
    THEN a
    ELSE aggregate_loop(aggregate_iter(a, Head(rest)), Tail(rest))

\* the function as one call
aggregate_kernel_status(kernel_statuses) ==
    aggregate_return(aggregate_loop(AggStart(kernel_statuses), kernel_statuses))

AggInit == \E ks \in SeqsUpTo(KernelStatuses, MaxKernels) : agg = AggStart(ks)

SessionFrame == UNCHANGED <<fsm, pc, pending, results, reqTerm, lastCall,
                            granted, rpc, channels, scan, qs, peersOf, fbr>>

(* the for loop takes the next kernel status *)
AggregateIter ==
    /\ agg.pc = "loop" /\ agg.pos <= Len(agg.kernel_statuses)
    /\ agg' = [aggregate_iter(agg, agg.kernel_statuses[agg.pos])
                    EXCEPT !.pos = @ + 1]
    /\ UNCHANGED sess
    /\ SessionFrame

(* the loop is over: the function returns *)
AggregateReturn ==
    /\ agg.pc = "loop" /\ agg.pos > Len(agg.kernel_statuses)
    /\ agg' = [agg EXCEPT !.pc = "returned", !.ret = aggregate_return(agg)]
    /\ UNCHANGED sess
    /\ SessionFrame

NextAggregate ==
    \/ AggregateIter
    \/ AggregateReturn

DEFAULT_ROLE == "main"
ClusterRole == {DEFAULT_ROLE, "sub"}
MainKernelNotFound == "MainKernelNotFound"
TooManyKernelsFound == "TooManyKernelsFound"
NoKernel == [id |-> 0, cluster_role |-> None]

\* kerns: the kernels of the session that carry the default role, in order
MainKernels(kernels) ==
    SelectSeq(kernels, LAMBDA kern : kern.cluster_role = DEFAULT_ROLE)

\* variant: the first kernel with the default role is returned, however many
main_kernel_takes_first(kernels) ==
    LET kerns == MainKernels(kernels)
    IN  IF Len(kerns) = 0
        THEN [raises |-> MainKernelNotFound, value |-> NoKernel]
        ELSE [raises |-> None, value |-> kerns[1]]

main_kernel(kernels) ==
    LET kerns == MainKernels(kernels)
    IN  IF Len(kerns) > 1
        THEN [raises |-> TooManyKernelsFound, value |-> NoKernel]
        ELSE IF Len(kerns) = 0
        THEN [raises |-> MainKernelNotFound, value |-> NoKernel]
        ELSE [raises |-> None, value |-> kerns[1]]

SessStart(roles) ==
    [kernels |-> [k \in 1..Len(roles) |-> [id |-> k, cluster_role |-> roles[k]]],
     pc |-> "start", ret |-> NoKernel, exc |-> None]

SessIdle == sess = SessStart(<<>>)

SessInit ==
    \E roles \in SeqsUpTo(ClusterRole, MaxSessionKernels) :
        sess = SessStart(roles)

(* the property main_kernel is read *)
ReadMainKernel ==
    /\ sess.pc = "start"
    /\ LET r == main_kernel(sess.kernels)
       IN  sess' = [sess EXCEPT
                        !.pc = IF r.raises = None THEN "returned" ELSE "raised",
                        !.ret = r.value, !.exc = r.raises]
    /\ UNCHANGED agg
    /\ SessionFrame

NextMainKernel == ReadMainKernel

(* ---------------------------------------------------------------------- *)
(* Specifications                                                          *)
(* ---------------------------------------------------------------------- *)
SessionIdle == AggIdle /\ SessIdle /\ FindIdle

Init == InitRaft /\ Cluster /\ ClientIdle /\ ScanIdle /\ QuorumIdle /\ SessionIdle

\* a cluster of three state machines
Spec == Init /\ [][Next]_vars

\* one state machine and an arbitrary network
SpecNode == Init /\ [][NextNode]_vars

InitClient == InitRaft /\ Cluster /\ ClientIdle /\ ScanIdle /\ QuorumIdle
                /\ SessionIdle

\* calls of the grpc client
SpecClient == InitClient /\ [][NextClient]_vars

InitScan == InitRaft /\ Cluster /\ ClientIdle /\ ScanInit /\ QuorumIdle
              /\ SessionIdle

\* one run of scan_entrypoints over any inputs
SpecScan == InitScan /\ [][NextScan]_vars

InitQuorum == InitRaft /\ Cluster /\ ClientIdle /\ ScanIdle /\ QuorumInit
                /\ SessionIdle

\* quorum of any cluster size
SpecQuorum == InitQuorum /\ [][NextQuorum]_vars

InitSolitary == InitRaft /\ Solitary /\ ClientIdle /\ ScanIdle /\ QuorumIdle
                  /\ SessionIdle

\* nodes without peers; the event loop runs every main() that can take a step
SpecSolitary ==
    InitSolitary /\ [][NextSolitary]_vars
        /\ \A i \in Node : WF_vars(MainLoop(i))

InitAggregate == InitRaft /\ Cluster /\ ClientIdle /\ ScanIdle /\ QuorumIdle
                   /\ AggInit /\ SessIdle /\ FindIdle

\* one call of aggregate_kernel_status on any sequence of kernel statuses
SpecAggregate == InitAggregate /\ [][NextAggregate]_vars

InitMainKernel == InitRaft /\ Cluster /\ ClientIdle /\ ScanIdle /\ QuorumIdle
                    /\ AggIdle /\ SessInit /\ FindIdle

InitFind == InitRaft /\ Cluster /\ ClientIdle /\ ScanIdle /\ QuorumIdle
              /\ AggIdle /\ SessIdle /\ FindInit

\* one call of find_build_root from any directory of any tree
SpecFind == InitFind /\ [][NextFind]_vars

\* one read of main_kernel on any list of kernels
SpecMainKernel == InitMainKernel /\ [][NextMainKernel]_vars

(* ---------------------------------------------------------------------- *)
(* Properties of the state machine                                         *)
(* ---------------------------------------------------------------------- *)

\* C1: for every term at most one node is LEADER with that current term.
C1_OneLeaderPerTerm ==
    \A i \in Node : \A j \in Node :
        (/\ i # j
         /\ fsm[i].state = LEADER
         /\ fsm[j].state = LEADER)
        => fsm[i].current_term # fsm[j].current_term

\* C2: once on_request_vote granted a candidate and the term has not changed
\* since, a request of the same term is granted exactly when it comes from
\* that candidate.
C2_VoteUniquePerTerm ==
    [][\A t \in 0..MaxTerm : \A c \in peers(Self) :
        (/\ EnvRequestVote(Self, t, c)
         /\ granted[Self] # None
         /\ t = fsm[Self].current_term)
        => (/\ lastCall'.ret = (c = granted[Self])
            /\ granted'[Self] = granted[Self]
            /\ fsm'[Self].current_term = t)]_vars

\* a request of the granted term from another candidate has been refused
C2_Witness ==
    /\ lastCall.op = "on_request_vote"
    /\ lastCall.node = Self
    /\ lastCall.ret = FALSE
    /\ lastCall.term = lastCall.prev_term
    /\ granted[Self] \notin {None, lastCall.peer}

Synchronizing ==
    /\ lastCall.op \in {"on_append_entries", "on_request_vote", "request_vote"}
    /\ lastCall.term > lastCall.prev_term

\* C3 as stated: after a call that synchronizes against a greater term T the
\* node is at term T, FOLLOWER, with no recorded vote.
C3_AsStated ==
    Synchronizing =>
        (/\ fsm[lastCall.node].current_term = lastCall.term
         /\ fsm[lastCall.node].state = FOLLOWER
         /\ fsm[lastCall.node].voted_for = None)

\* C3 amended: after such a call the node is at term T; on_append_entries
\* leaves it FOLLOWER without a vote, on_request_vote leaves it FOLLOWER with
\* its vote given to the requesting candidate, and the candidate's own
\* increment leaves it CANDIDATE without a vote.
C3_SynchronizedTerm ==
    Synchronizing =>
        (/\ fsm[lastCall.node].current_term = lastCall.term
         /\ lastCall.op = "on_append_entries" =>
                /\ fsm[lastCall.node].state = FOLLOWER
                /\ fsm[lastCall.node].voted_for = None
         /\ lastCall.op = "on_request_vote" =>
                /\ fsm[lastCall.node].state = FOLLOWER
                /\ fsm[lastCall.node].voted_for = lastCall.peer
                /\ lastCall.ret = TRUE
         /\ lastCall.op = "request_vote" =>
                /\ fsm[lastCall.node].state = CANDIDATE
                /\ fsm[lastCall.node].voted_for = None)

\* a node that had voted in an older term took a RequestVote of a newer one
C3_Witness ==
    /\ lastCall.op = "on_request_vote"
    /\ lastCall.term > lastCall.prev_term
    /\ lastCall.prev_term > 0
    /\ fsm[lastCall.node].voted_for = lastCall.peer

\* C4: the current term starts at 0 and no step ever lowers it.
C4_TermMonotonic ==
    /\ \A i \in Node : fsm[i].current_term = 0
    /\ [][\A i \in Node : fsm'[i].current_term >= fsm[i].current_term]_vars

\* a call with an older term reached a node whose term had grown
C4_Witness ==
    /\ lastCall.op = "on_request_vote"
    /\ lastCall.term < lastCall.prev_term
    /\ fsm[lastCall.node].current_term = MaxTerm

\* C5: on_append_entries with a term below the current term returns false
\* and changes neither term, state, vote, leader id nor the elapsed time.
C5_StaleAppendEntries ==
    [][\A t \in 0..MaxTerm : \A l \in peers(Self) :
        (EnvAppendEntries(Self, t, l) /\ t < fsm[Self].current_term)
        => (/\ lastCall'.ret = FALSE
            /\ fsm'[Self].current_term = fsm[Self].current_term
            /\ fsm'[Self].state = fsm[Self].state
            /\ fsm'[Self].voted_for = fsm[Self].voted_for
            /\ fsm'[Self].leader_id = fsm[Self].leader_id
            /\ fsm'[Self].elapsed_time = fsm[Self].elapsed_time)]_vars

\* a stale AppendEntries was refused while the election clock was running
C5_Witness ==
    /\ lastCall.op = "on_append_entries"
    /\ lastCall.term < lastCall.prev_term
    /\ lastCall.ret = FALSE
    /\ fsm[lastCall.node].elapsed_time > 0
    /\ fsm[lastCall.node].voted_for # None

\* C16: a node constructed with no peers, its main loop fairly scheduled
\* and no RPC coming in, eventually is LEADER, of term 1: its first round
\* gathers no vote and its own meets quorum 1.
C16_SolitaryLeader ==
    <>(\A i \in Node : fsm[i].state = LEADER /\ fsm[i].current_term = 1)

\* the round of a node without peers has just ended
C16_Witness ==
    /\ peers(Self) = {}
    /\ quorum(Cardinality(peers(Self))) = 1
    /\ pc[Self] = "top"
    /\ fsm[Self].state = LEADER
    /\ fsm[Self].current_term = 1

\* C17: on_request_vote with a term below the node's current term returns
\* false and leaves current term, state and recorded vote as they were, but
\* sets the election elapsed-time counter to 0.
C17_StaleRequestVote ==
    [][\A t \in 0..MaxTerm : \A c \in peers(Self) :
        (EnvRequestVote(Self, t, c) /\ t < fsm[Self].current_term)
        => (/\ lastCall'.ret = FALSE
            /\ fsm'[Self].current_term = fsm[Self].current_term
            /\ fsm'[Self].state = fsm[Self].state
            /\ fsm'[Self].voted_for = fsm[Self].voted_for
            /\ fsm'[Self].elapsed_time = 0)]_vars

\* a stale RequestVote was refused by a follower waiting for its election
\* timeout, whose vote is held by another candidate
C17_Witness ==
    /\ lastCall.op = "on_request_vote"
    /\ lastCall.node = Self
    /\ lastCall.term < lastCall.prev_term
    /\ lastCall.ret = FALSE
    /\ pc[Self] = "wait"
    /\ fsm[Self].elapsed_time = 0
    /\ fsm[Self].voted_for \notin {None, lastCall.peer}

\* the latest step was peer j handling the AppendEntries of leader i; the
\* reply carries j's current term
HeartbeatAnswered(i, j) ==
    /\ lastCall.op = "on_append_entries"
    /\ lastCall.node = j
    /\ lastCall.peer = i

\* C18 as stated: when the reply of a peer to a node's heartbeat reports a
\* term above the node's current term, the node has adopted that term, is
\* FOLLOWER and has no recorded vote by the time its heartbeat round is over.
C18_AsStated ==
    [][\A i \in Node : \A j \in Node :
        (/\ HeartbeatDone(i)
         /\ HeartbeatAnswered(i, j)
         /\ fsm[j].current_term > fsm[i].current_term)
        => (/\ fsm'[i].current_term = fsm[j].current_term
            /\ fsm'[i].state = FOLLOWER
            /\ fsm'[i].voted_for = None)]_vars

C22_ElectionClock ==
    [][/\ (fsm[Self].state = FOLLOWER /\ fsm'[Self].state = CANDIDATE) =>
            (/\ pc[Self] = "wait"
             /\ fsm[Self].elapsed_time >= ElectionTicks)
       /\ \A t \in 0..MaxTerm : \A p \in peers(Self) :
            /\ (EnvAppendEntries(Self, t, p) /\ lastCall'.ret) =>
                    fsm'[Self].elapsed_time = 0
            /\ EnvRequestVote(Self, t, p) => fsm'[Self].elapsed_time = 0
       /\ fsm'[Self].elapsed_time # fsm[Self].elapsed_time =>
            \/ fsm'[Self].elapsed_time = 0
            \/ /\ WaitTick(Self)
               /\ fsm'[Self].elapsed_time = fsm[Self].elapsed_time + 1]_vars

\* a heartbeat was accepted by a follower in its wait: the clock is at 0
C22_Witness ==
    /\ lastCall.op = "on_append_entries"
    /\ lastCall.node = Self
    /\ lastCall.ret
    /\ pc[Self] = "wait"
    /\ fsm[Self].state = FOLLOWER
    /\ fsm[Self].elapsed_time = 0
    /\ fsm[Self].leader_id = lastCall.peer

C25_AsStated ==
    [][\A i \in Node :
        (RequestVoteDone(i) /\ fsm'[i].state = LEADER)
        => (/\ fsm[i].state = CANDIDATE
            /\ fsm[i].current_term = reqTerm[i] + 1)]_vars

\* C26 as stated: is_leader is true only if the node's state is LEADER.
C26_AsStated ==
    is_leader(fsm[Self], Self) => fsm[Self].state = LEADER

C27_AsStated ==
    [][(MainCandidate(Self) \/ CandidateRetry(Self))
        => reqTerm'[Self] = fsm'[Self].current_term]_vars

\* C28 as stated: a node that counts its own vote at the end of a round,
\* still in the term of that round, has granted no vote to another
\* candidate since it entered that term.
C28_AsStated ==
    [][(/\ RequestVoteDone(Self)
        /\ fsm[Self].current_term = reqTerm[Self] + 1)
        => granted[Self] \in {None, Self}]_vars

(* ---------------------------------------------------------------------- *)
(* Properties of membership / quorum                                       *)
(* ---------------------------------------------------------------------- *)

\* C6: membership is the peer count plus one, quorum is the smallest strict
\* majority of the membership (so two quorums always share a member); it is
\* 1 for a solitary node and 3 for five members.
C6_Quorum ==
    qs.pc = "done" =>
        (/\ qs.membership = qs.peers + 1
         /\ 2 * qs.quorum > qs.membership
         /\ 2 * (qs.quorum - 1) <= qs.membership
         /\ qs.peers = 0 => qs.quorum = 1
         /\ qs.peers = 4 => qs.quorum = 3)

\* the quorum of an even membership has been read
C6_Witness ==
    /\ qs.pc = "done"
    /\ qs.peers = 5
    /\ qs.quorum = 4

(* ---------------------------------------------------------------------- *)
(* Properties of the client                                                *)
(* ---------------------------------------------------------------------- *)
Resolved(c) == rpc[c].pc \in {"returned", "raised"}

\* C7: a call that ended by a transport error or by the timeout has returned
\* (term, false) with the term the caller passed in, and has not raised.
C7_FailureIsFalse ==
    \A c \in CallId :
        (Resolved(c) /\ rpc[c].event.kind \in {"rpc_error", "timeout"})
        => (/\ rpc[c].pc = "returned"
            /\ rpc[c].value = <<rpc[c].term, FALSE>>)

\* a request_vote with a non-zero term ran into the timeout
C7_Witness ==
    \E c \in CallId :
        /\ rpc[c].method = "request_vote"
        /\ rpc[c].event.kind = "timeout"
        /\ rpc[c].term > 0
        /\ rpc[c].pc = "returned"

\* C8: a resolved call has no open channel, and once every call made has
\* resolved as many channels were closed as were opened.
C8_ChannelsClosed ==
    /\ \A c \in CallId : Resolved(c) => rpc[c].channel # "open"
    /\ (\A c \in CallId : rpc[c].pc = "idle" \/ Resolved(c))
            => channels.opened = channels.closed

\* every call has opened a channel and resolved, one by cancellation and
\* one by the timeout
C8_Witness ==
    /\ \A c \in CallId : Resolved(c)
    /\ \E c \in CallId : rpc[c].event.kind = "cancel" /\ rpc[c].channel = "closed"
    /\ \E c \in CallId : rpc[c].event.kind = "timeout"
    /\ channels.opened = NumCalls

\* C20 as stated: a call cancelled while it waits for the peer returns
\* (term, false) with the caller's term and does not raise, whichever of
\* the two methods it is.
C20_AsStated ==
    \A c \in CallId :
        (/\ Resolved(c)
         /\ rpc[c].event.kind = "cancel"
         /\ rpc[c].channel = "closed")
        => (/\ rpc[c].pc = "returned"
            /\ rpc[c].value = <<rpc[c].term, FALSE>>)

(* ---------------------------------------------------------------------- *)
(* Properties of the entry-point scan                                      *)
(* ---------------------------------------------------------------------- *)
ScanOver == scan.pc \in {"exhausted", "failed"}

Live(k) == Merged(scan)[k].name \notin scan.blocklist

\* positions p < q hold the same live name with different references
Conflict(p, q) ==
    /\ p < q
    /\ Live(p)
    /\ Merged(scan)[p].name = Merged(scan)[q].name
    /\ Merged(scan)[p].value # Merged(scan)[q].value

Positions == 1..Len(Merged(scan))

Count(n) == Cardinality({k \in 1..Len(scan.yielded) : scan.yielded[k].name = n})

\* C9 as stated: a live name that both sources give with the same reference
\* (no name being given two different references) is yielded exactly once
\* and the scan does not fail.
C9_AsStated ==
    \A n \in Names :
        (/\ ScanOver /\ scan.root
         /\ n \notin scan.blocklist
         /\ \E e \in EntryPoint :
                /\ e.name = n
                /\ \E k \in 1..Len(DictOf(scan.extracted)) :
                        DictOf(scan.extracted)[k] = e
                /\ \E k \in 1..Len(scan.metadata) : scan.metadata[k] = e
         /\ ~ \E p \in Positions : \E q \in Positions : Conflict(p, q))
        => (scan.pc = "exhausted" /\ Count(n) = 1)

\* C10 as stated: when the chain holds a live name with two different
\* references, the scan fails with an error naming the first reference of
\* that name and the first one that differs from it, and that second entry
\* is never yielded.
C10_AsStated ==
    \A q \in Positions :
        (/\ ScanOver
         /\ \E p \in Positions : Conflict(p, q)
         /\ ~ \E r \in Positions : \E p \in Positions : r < q /\ Conflict(p, r))
        => (/\ scan.pc = "failed"
            /\ scan.error.kind = "RuntimeError"
            /\ scan.error.name = Merged(scan)[q].name
            /\ scan.error.value = Merged(scan)[q].value
            /\ scan.error.existing # scan.error.value
            /\ \A k \in 1..Len(scan.yielded) :
                    scan.yielded[k] # Merged(scan)[q])

\* C11: no entry whose name is in the blocklist is ever yielded, whichever
\* source it came from, and the duplicate-name error never names a
\* blocklisted name: when only blocklisted names repeat, the scan of a tree
\* with a build root runs to exhaustion.
C11_BlocklistDrops ==
    /\ \A k \in 1..Len(scan.yielded) : scan.yielded[k].name \notin scan.blocklist
    /\ scan.error.kind = "RuntimeError" => scan.error.name \notin scan.blocklist
    /\ (/\ ScanOver /\ scan.root
        /\ \A p \in Positions : \A q \in Positions :
                (p < q /\ Merged(scan)[p].name = Merged(scan)[q].name)
                    => ~Live(p))
       => scan.pc = "exhausted"

\* a blocklisted name came from both sources with different references,
\* next to a live name that was yielded
C11_Witness ==
    /\ scan.pc = "exhausted"
    /\ scan.yielded # <<>>
    /\ \E p \in Positions : \E q \in Positions :
            /\ p <= Len(DictOf(scan.extracted)) /\ Len(DictOf(scan.extracted)) < q
            /\ ~Live(p)
            /\ Merged(scan)[p].name = Merged(scan)[q].name
            /\ Merged(scan)[p].value # Merged(scan)[q].value

\* C12 as stated: when no build root is found the build-script source raises
\* nothing, and the scan, when it runs to exhaustion, has yielded every
\* package-metadata entry whose name is not blocklisted.
C12_AsStated ==
    (ScanOver /\ ~scan.root)
        => /\ scan.error.kind # "UnboundLocalError"
           /\ scan.pc = "exhausted" =>
                \A k \in 1..Len(scan.metadata) :
                    scan.metadata[k].name \notin scan.blocklist
                        => \E m \in 1..Len(scan.yielded) :
                                scan.yielded[m] = scan.metadata[k]

(* ---------------------------------------------------------------------- *)
(* Properties of the session model                                         *)
(* ---------------------------------------------------------------------- *)
FinishedOrder == <<"ERROR", "TERMINATING", "CANCELLED", "TERMINATED">>

Finished == {KernelStatus(FinishedOrder[p]) : p \in 1..Len(FinishedOrder)}

Present(n) ==
    \E k \in 1..Len(agg.kernel_statuses) : agg.kernel_statuses[k].name = n

\* C13: for a sequence made only of ERROR, TERMINATING, CANCELLED and
\* TERMINATED, aggregate_kernel_status returns the session status of the
\* first name of the order ERROR > TERMINATING > CANCELLED > TERMINATED
\* that is present.
C13_FinishedPriority ==
    (/\ agg.pc = "returned"
     /\ agg.kernel_statuses # <<>>
     /\ \A k \in 1..Len(agg.kernel_statuses) : agg.kernel_statuses[k] \in Finished)
    => \E p \in 1..Len(FinishedOrder) :
            /\ Present(FinishedOrder[p])
            /\ \A q \in 1..(p - 1) : ~Present(FinishedOrder[q])
            /\ agg.ret = SessionStatus(FinishedOrder[p])

\* TERMINATED, CANCELLED and TERMINATING aggregated, in an order that meets
\* the lowest priority last
C13_Witness ==
    /\ agg.pc = "returned"
    /\ Len(agg.kernel_statuses) = 3
    /\ agg.kernel_statuses[1] = KernelStatus("TERMINATING")
    /\ agg.kernel_statuses[2] = KernelStatus("CANCELLED")
    /\ agg.kernel_statuses[3] = KernelStatus("TERMINATED")
    /\ agg.ret = SessionStatus("TERMINATING")

\* C14: when some status of the sequence is not one of ERROR, TERMINATING,
\* CANCELLED, TERMINATED, the result is the session status with the name of
\* the lowest-valued such status, whatever finished statuses are present.
C14_LowestNonFinished ==
    (/\ agg.pc = "returned"
     /\ \E k \in 1..Len(agg.kernel_statuses) : agg.kernel_statuses[k] \notin Finished)
    => \E k \in 1..Len(agg.kernel_statuses) :
            /\ agg.kernel_statuses[k] \notin Finished
            /\ \A m \in 1..Len(agg.kernel_statuses) :
                    agg.kernel_statuses[m] \notin Finished
                        => KernelStatusValue(agg.kernel_statuses[k])
                                <= KernelStatusValue(agg.kernel_statuses[m])
            /\ agg.ret = SessionStatus(agg.kernel_statuses[k].name)

\* an ERROR kernel next to a RUNNING and a PENDING one
C14_Witness ==
    /\ agg.pc = "returned"
    /\ Present("ERROR") /\ Present("RUNNING") /\ Present("PENDING")
    /\ agg.ret = SessionStatus("PENDING")

StatusSet(ks) == {ks[k] : k \in 1..Len(ks)}

\* the sequences of up to MaxKernels statuses with the statuses of ks:
\* its reorderings, and those with a status repeated or a repetition removed
Variants(ks) ==
    {v \in SeqsUpTo(StatusSet(ks), MaxKernels) : StatusSet(v) = StatusSet(ks)}

\* C29: aggregate_kernel_status depends only on the set of statuses
\* present: every reordering of the input, and every input that repeats
\* its statuses differently, has the same result, and the empty input
\* gives TERMINATED.
C29_SetOnly ==
    agg.pc = "returned" =>
        /\ \A v \in Variants(agg.kernel_statuses) :
                aggregate_kernel_status(v) = agg.ret
        /\ agg.kernel_statuses = <<>> => agg.ret = SessionStatus("TERMINATED")

\* TERMINATED, CANCELLED, TERMINATED was aggregated: a status is repeated,
\* and the shorter inputs in both orders give the same CANCELLED
C29_Witness ==
    /\ agg.pc = "returned"
    /\ agg.kernel_statuses = <<KernelStatus("TERMINATED"),
                               KernelStatus("CANCELLED"),
                               KernelStatus("TERMINATED")>>
    /\ agg.ret = SessionStatus("CANCELLED")
    /\ aggregate_kernel_status(<<KernelStatus("CANCELLED"),
                                 KernelStatus("TERMINATED")>>) = agg.ret
    /\ aggregate_kernel_status(<<KernelStatus("TERMINATED"),
                                 KernelStatus("CANCELLED")>>) = agg.ret

DefaultRoleIds ==
    {k \in 1..Len(sess.kernels) : sess.kernels[k].cluster_role = DEFAULT_ROLE}

\* C15: main_kernel returns the kernel with the default role when there is
\* exactly one, raises MainKernelNotFound when there is none and
\* TooManyKernelsFound when there are two or more.
C15_MainKernel ==
    sess.pc # "start" =>
        /\ Cardinality(DefaultRoleIds) = 1 =>
                /\ sess.pc = "returned"
                /\ sess.ret.id \in DefaultRoleIds
                /\ sess.ret = sess.kernels[sess.ret.id]
        /\ Cardinality(DefaultRoleIds) = 0 =>
                sess.pc = "raised" /\ sess.exc = MainKernelNotFound
        /\ Cardinality(DefaultRoleIds) >= 2 =>
                sess.pc = "raised" /\ sess.exc = TooManyKernelsFound

\* the single main kernel is returned from among other kernels
C15_Witness ==
    /\ sess.pc = "returned"
    /\ Len(sess.kernels) >= 3
    /\ sess.ret.id = 2
    /\ sess.ret.cluster_role = DEFAULT_ROLE

(* ---------------------------------------------------------------------- *)
(* Properties of find_build_root                                           *)
(* ---------------------------------------------------------------------- *)
FindOver == fbr.pc \in {"returned", "raised"}

\* C21 as stated: the call ends; it returns the deepest directory among the
\* start and its ancestors, the filesystem root included, that holds the
\* marker, and raises only when none of them holds it.
C21_AsStated ==
    FindOver =>
        IF fbr.markers # {}
        THEN /\ fbr.pc = "returned"
             /\ fbr.ret \in fbr.markers
             /\ \A d \in fbr.markers : d <= fbr.ret
        ELSE fbr.pc = "raised"

====
